---- MODULE Spec2Model ----
(***************************************************************************)
(* Connection bootstrap, retry protocol, entity registry and shutdown hook *)
(* of the TypeORM integration module (lib/typeorm-core.module.ts,          *)
(* lib/typeorm.module.ts).                                                 *)
(*                                                                         *)
(* The retry operator (handleRetry), the name/token helpers and the        *)
(* EntitiesMetadataStorage class live in files that are not part of the    *)
(* source tree at hand; they are modelled from the written specification   *)
(* and are marked so where they are defined.                               *)
(***************************************************************************)
EXTENDS Integers, Sequences, FiniteSets, TLC

\* ------------------------------------------------------------------ bounds
MaxAttempts == 3       \* retryAttempts ranges over -1 .. MaxAttempts
MaxDelay == 2          \* retryDelay ranges over 1 .. MaxDelay (abstract ticks)
MaxFeatureCalls == 2   \* number of forFeature registrations in one run

\* ------------------------------------------------------------- value sets
NoName == "<none>"     \* stands for an absent `name` field
DEFAULT_DATA_SOURCE_NAME == "default"
Names == {"db2"}
OptNames == Names \cup {NoName}
Errors == {"E1", "E2"}

AbsentToRetry == [defined |-> FALSE, accepts |-> {}]
ToRetryChoices ==
  {AbsentToRetry} \cup {[defined |-> TRUE, accepts |-> S] : S \in SUBSET Errors}

\* options.entities: undefined, an array, or a keyed map.  An array is an
\* object whose keys are its indices, so both forms are lists of key/value
\* slots in enumeration order, told apart by `form`.
Slot(k, v) == [key |-> k, value |-> v]
UndefinedEntities == [form |-> "undefined", items |-> <<>>]
ArrayOf(s) == [form |-> "array", items |-> [i \in 1..Len(s) |-> Slot(ToString(i - 1), s[i])]]
MapOf(ks, s) == [form |-> "map", items |-> [i \in 1..Len(s) |-> Slot(ks[i], s[i])]]
EntitiesChoices ==
  { UndefinedEntities, ArrayOf(<<>>), ArrayOf(<<"A">>), ArrayOf(<<"B", "A">>),
    MapOf(<<"user", "photo">>, <<"C", "A">>) }

ManagerStates == {"absent", "uninitialized", "initialized", "broken"}

\* The module-definition call: forRoot(options) or forRootAsync(asyncOptions).
Roots ==
  {[kind |-> "forRoot", name |-> NoName, dataSourceFactory |-> FALSE]} \cup
  {[kind |-> "forRootAsync", name |-> n, dataSourceFactory |-> f] :
      n \in OptNames, f \in BOOLEAN}

NoResult == [kind |-> "none", call |-> 0, err |-> "-"]
ConnOfCall(k) == [kind |-> "conn", call |-> k, err |-> "-"]
ManagedConn == ConnOfCall(0)    \* the connection the manager already holds
ErrorOfCall(k, e) == [kind |-> "error", call |-> k, err |-> e]

NoArgs == [kind |-> "not-called", factory |-> "-", entities |-> UndefinedEntities]

VARIABLES
  root,          \* how the module was defined (forRoot / forRootAsync)
  options,       \* the resolved TypeOrmModuleOptions
  manager,       \* state of getConnectionManager() for the resolved name
  storage,       \* EntitiesMetadataStorage.storage: key -> ordered entities
  registered,    \* history: key -> everything forFeature was asked to add
  featureCalls,  \* number of forFeature calls made
  pc,            \* "idle" | "connecting" | "waiting" | "resolved" | "rejected"
  subscriptions, \* times the deferred body ran
  calls,         \* invocations of the connection factory
  inFlight,      \* factory promises not yet settled
  lastArgs,      \* arguments of the latest factory invocation
  outcomes,      \* history: outcome of each settled factory call
  errorCount,    \* accumulator of the retry operator
  retryLogs,     \* retry warnings logged
  timer,         \* ticks left of the running retry delay
  elapsed,       \* ticks waited since the last failure
  waits,         \* history: ticks waited before each re-subscription
  result,        \* what createDataSourceFactory resolved / rejected with
  shutdown,      \* "none" | "closing" | "done" | "threw"
  closeCalls,    \* calls of dataSource.close()
  closeTarget,   \* the connection close() was called on
  closeFailed,   \* close() rejected
  errorLogs      \* messages passed to logger.error by the shutdown hook

vars == << root, options, manager, storage, registered, featureCalls, pc,
           subscriptions, calls, inFlight, lastArgs, outcomes, errorCount,
           retryLogs, timer, elapsed, waits, result, shutdown, closeCalls,
           closeTarget, closeFailed, errorLogs >>

registryVars == << storage, registered, featureCalls >>
shutdownVars == << shutdown, closeCalls, closeTarget, closeFailed, errorLogs >>

\* ------------------------------------------------- names, tokens and keys
\* getDataSourceName (lib/common/typeorm.utils): the logical name of a
\* configuration is its `name` field, else the default name.
getDataSourceName(o) ==
  IF o.name # NoName THEN o.name ELSE DEFAULT_DATA_SOURCE_NAME

\* getDataSourceToken (lib/common/typeorm.utils): the injection token of a
\* connection is a function of its logical name alone.
getDataSourceToken(o) == getDataSourceName(o)

\* A stable serialization of a configuration object that carries no name.
SerializedConfig == "{}"

\* Key resolution of the registry: a string is the key; an object gives its
\* name or, failing that, its serialization.
ResolveKey(ds) ==
  IF ds.kind = "string" THEN ds.name
  ELSE IF ds.name # NoName THEN ds.name ELSE SerializedConfig

StringKey(n) == [kind |-> "string", name |-> n]
ObjectKey(n) == [kind |-> "object", name |-> n]
Omitted == [kind |-> "omitted", name |-> NoName]
DataSourceArgs == {Omitted, StringKey("db2"), ObjectKey("db2"), ObjectKey(NoName)}

\* --------------------------------------------------------- entity registry
\* Append the entities of `ents`, in order, skipping those already present.
RECURSIVE AppendDistinct(_, _)
AppendDistinct(coll, ents) ==
  IF ents = <<>> THEN coll
  ELSE IF \E i \in 1..Len(coll) : coll[i] = Head(ents)
       THEN AppendDistinct(coll, Tail(ents))
       ELSE AppendDistinct(Append(coll, Head(ents)), Tail(ents))

\* EntitiesMetadataStorage.addEntitiesByDataSource
addEntitiesByDataSource(st, ds, ents) ==
  LET key == ResolveKey(ds)
      old == IF key \in DOMAIN st THEN st[key] ELSE <<>>
  IN  [k \in DOMAIN st \cup {key} |->
         IF k = key THEN AppendDistinct(old, ents) ELSE st[k]]

\* EntitiesMetadataStorage.getEntitiesByDataSource
getEntitiesByDataSource(st, ds) ==
  LET key == ResolveKey(ds)
  IN  IF key \in DOMAIN st THEN st[key] ELSE <<>>

\* ------------------------------------------------ createDataSourceFactory
\* Object.values(x): the values of the slots, in enumeration order.
ObjectValues(e) == [i \in 1..Len(e.items) |-> e.items[i].value]

\* The keep-alive short cut of the deferred body: manager.has(name) and
\* manager.get(name).isInitialized; an exception thrown on the way is
\* swallowed by the empty catch and the body goes on.
ManagerThrows(m) == m = "broken"
ManagerHas(m) == m \in {"uninitialized", "initialized"}
IsInitialized(m) == m = "initialized"
\* Slip: the isInitialized test is left out.
ReusesExisting_NoInitCheck(o, m) ==
  /\ o.keepDataSourceAlive
  /\ ~ManagerThrows(m)
  /\ ManagerHas(m)
ReusesExisting(o, m) ==
  /\ o.keepDataSourceAlive
  /\ ~ManagerThrows(m)
  /\ ManagerHas(m)
  /\ IsInitialized(m)

\* Slip: the registry's entities are put before the configured ones.
ResolvedEntities_RegistryFirst(o, st) ==
  LET dataSourceToken == StringKey(getDataSourceName(o))
  IN  IF o.entities.form # "undefined"
      THEN getEntitiesByDataSource(st, dataSourceToken) \o ObjectValues(o.entities)
      ELSE getEntitiesByDataSource(st, dataSourceToken)

\* The entity list of the auto-load branch.
ResolvedEntities(o, st) ==
  LET dataSourceToken == StringKey(getDataSourceName(o))
      entities == IF o.entities.form = "undefined"
                  THEN UndefinedEntities
                  ELSE ArrayOf(ObjectValues(o.entities))
  IN  IF entities.form # "undefined"
      THEN ObjectValues(entities) \o getEntitiesByDataSource(st, dataSourceToken)
      ELSE getEntitiesByDataSource(st, dataSourceToken)

\* dataSourceFactory ?? createConnection
createTypeormDataSource(rt) ==
  IF rt.dataSourceFactory THEN "dataSourceFactory" ELSE "createConnection"

\* What the connection factory is called with.
FactoryArgs(rt, o, st) ==
  IF ~o.type
  THEN [kind |-> "no-arguments", factory |-> createTypeormDataSource(rt),
        entities |-> UndefinedEntities]
  ELSE IF ~o.autoLoadEntities
  THEN [kind |-> "options", factory |-> createTypeormDataSource(rt),
        entities |-> o.entities]
  ELSE [kind |-> "options", factory |-> createTypeormDataSource(rt),
        entities |-> ArrayOf(ResolvedEntities(o, st))]

\* Slips in the argument list of handleRetry.
handleRetryArgs_Swapped(o) ==
  [retryAttempts |-> o.retryDelay,
   retryDelay |-> o.retryAttempts,
   dataSourceName |-> getDataSourceName(o),
   toRetry |-> o.toRetry]
handleRetryArgs_NoPredicate(o) ==
  [retryAttempts |-> o.retryAttempts,
   retryDelay |-> o.retryDelay,
   dataSourceName |-> getDataSourceName(o),
   toRetry |-> AbsentToRetry]

\* The arguments handed to handleRetry.
handleRetryArgs(o) ==
  [retryAttempts |-> o.retryAttempts,
   retryDelay |-> o.retryDelay,
   dataSourceName |-> getDataSourceName(o),
   toRetry |-> o.toRetry]

\* ------------------------------------------------------------ retry protocol
\* handleRetry (lib/common/typeorm.utils): after the failure that makes
\* `failures` failures in all, retry iff the predicate accepts the error and
\* attempts remain.
ShouldRetry(args, failures, e) ==
  /\ args.toRetry.defined => e \in args.toRetry.accepts
  /\ args.retryAttempts - failures > 0

\* ------------------------------------------------------------ initial states
OptionsOf(n, a, d, t, auto, keep, ty, ents) ==
  [name |-> n, retryAttempts |-> a, retryDelay |-> d, toRetry |-> t,
   autoLoadEntities |-> auto, keepDataSourceAlive |-> keep, type |-> ty,
   entities |-> ents]

InitControl ==
  /\ pc = "idle"
  /\ subscriptions = 0
  /\ calls = 0
  /\ inFlight = 0
  /\ lastArgs = NoArgs
  /\ outcomes = <<>>
  /\ errorCount = 0
  /\ retryLogs = 0
  /\ timer = 0
  /\ elapsed = 0
  /\ waits = <<>>
  /\ result = NoResult
  /\ shutdown = "none"
  /\ closeCalls = 0
  /\ closeTarget = NoResult
  /\ closeFailed = FALSE
  /\ errorLogs = <<>>
  /\ storage = <<>>
  /\ registered = <<>>
  /\ featureCalls = 0

\* Retry, reuse and shutdown: every retry policy, a fixed entity setup.
Init ==
  /\ InitControl
  /\ root \in Roots
  /\ manager \in ManagerStates
  /\ \E n \in OptNames, a \in -1..MaxAttempts, d \in 1..MaxDelay,
        t \in ToRetryChoices, keep \in BOOLEAN :
       options = OptionsOf(n, a, d, t, FALSE, keep, TRUE, UndefinedEntities)

\* Entity resolution: every entity setup, a short retry policy.
InitRegistry ==
  /\ InitControl
  /\ root = [kind |-> "forRoot", name |-> NoName, dataSourceFactory |-> FALSE]
  /\ manager = "absent"
  /\ \E n \in OptNames, a \in 1..2, auto \in BOOLEAN, ty \in BOOLEAN,
        ents \in EntitiesChoices :
       options = OptionsOf(n, a, 1, AbsentToRetry, auto, FALSE, ty, ents)

\* ------------------------------------------------------------------ actions
\* TypeOrmModule.forFeature(entities, dataSource); `custom` is what
\* getCustomRepositoryEntity(entities) returns.
\* Slip: the custom repositories' entities are spread first.
forFeatureEntities_CustomFirst(entities, custom) == custom \o entities
forFeatureEntities(entities, custom) == entities \o custom
forFeatureDataSource(ds) ==
  IF ds.kind = "omitted" THEN StringKey(DEFAULT_DATA_SOURCE_NAME) ELSE ds

FeatureLists == {<<>>, <<"A", "B">>, <<"C">>, <<"B">>}
CustomLists == {<<>>, <<"C">>}

ForFeature ==
  /\ featureCalls < MaxFeatureCalls
  /\ \E entities \in FeatureLists, custom \in CustomLists, ds \in DataSourceArgs :
       LET dataSource == forFeatureDataSource(ds)
           key == ResolveKey(dataSource)
           before == IF key \in DOMAIN registered THEN registered[key] ELSE <<>>
       IN  /\ storage' = addEntitiesByDataSource(
                           storage, dataSource, forFeatureEntities(entities, custom))
           /\ registered' = [k \in DOMAIN registered \cup {key} |->
                               IF k = key THEN before \o entities \o custom
                               ELSE registered[k]]
  /\ featureCalls' = featureCalls + 1
  /\ UNCHANGED << root, options, manager, pc, subscriptions, calls, inFlight,
                  lastArgs, outcomes, errorCount, retryLogs, timer, elapsed,
                  waits, result >>
  /\ UNCHANGED shutdownVars

\* The body handed to defer(): runs once per subscription.
DeferBody ==
  /\ subscriptions' = subscriptions + 1
  /\ IF ReusesExisting(options, manager)
     THEN /\ pc' = "resolved"
          /\ result' = ManagedConn
          /\ UNCHANGED << calls, inFlight, lastArgs >>
     ELSE /\ pc' = "connecting"
          /\ calls' = calls + 1
          /\ inFlight' = inFlight + 1
          /\ lastArgs' = FactoryArgs(root, options, storage)
          /\ UNCHANGED result

\* createDataSourceFactory is called by the provider's useFactory.
Bootstrap ==
  /\ pc = "idle"
  /\ DeferBody
  /\ UNCHANGED << root, options, manager, outcomes, errorCount, retryLogs,
                  timer, elapsed, waits >>
  /\ UNCHANGED registryVars
  /\ UNCHANGED shutdownVars

\* The factory's promise resolves.
FactoryResolve ==
  /\ pc = "connecting"
  /\ inFlight' = inFlight - 1
  /\ outcomes' = Append(outcomes, "ok")
  /\ result' = ConnOfCall(calls)
  /\ pc' = "resolved"
  /\ UNCHANGED << root, options, manager, subscriptions, calls, lastArgs,
                  errorCount, retryLogs, timer, elapsed, waits >>
  /\ UNCHANGED registryVars
  /\ UNCHANGED shutdownVars

\* The factory's promise rejects with e; the retry operator decides.
FactoryReject ==
  /\ pc = "connecting"
  /\ \E e \in Errors :
       /\ outcomes' = Append(outcomes, e)
       /\ IF ShouldRetry(handleRetryArgs(options), errorCount + 1, e)
          THEN /\ retryLogs' = retryLogs + 1
               /\ errorCount' = errorCount + 1
               /\ timer' = handleRetryArgs(options).retryDelay
               /\ elapsed' = 0
               /\ pc' = "waiting"
               /\ UNCHANGED result
          ELSE /\ result' = ErrorOfCall(calls, e)
               /\ pc' = "rejected"
               /\ UNCHANGED << retryLogs, errorCount, timer, elapsed >>
  /\ inFlight' = inFlight - 1
  /\ UNCHANGED << root, options, manager, subscriptions, calls, lastArgs, waits >>
  /\ UNCHANGED registryVars
  /\ UNCHANGED shutdownVars

\* Time passes while the retry delay runs.
Tick ==
  /\ pc = "waiting"
  /\ timer > 0
  /\ timer' = timer - 1
  /\ elapsed' = elapsed + 1
  /\ UNCHANGED << root, options, manager, pc, subscriptions, calls, inFlight,
                  lastArgs, outcomes, errorCount, retryLogs, waits, result >>
  /\ UNCHANGED registryVars
  /\ UNCHANGED shutdownVars

\* The delay has elapsed: the source is subscribed to again.
Resubscribe ==
  /\ pc = "waiting"
  /\ timer = 0
  /\ waits' = Append(waits, elapsed)
  /\ DeferBody
  /\ UNCHANGED << root, options, manager, outcomes, errorCount, retryLogs,
                  timer, elapsed >>
  /\ UNCHANGED registryVars
  /\ UNCHANGED shutdownVars

\* Other code of the process initializes the connection the manager holds.
ManagerInitialize ==
  /\ manager = "uninitialized"
  /\ pc \in {"idle", "connecting", "waiting"}
  /\ manager' = "initialized"
  /\ UNCHANGED << root, options, pc, subscriptions, calls, inFlight, lastArgs,
                  outcomes, errorCount, retryLogs, timer, elapsed, waits, result >>
  /\ UNCHANGED registryVars
  /\ UNCHANGED shutdownVars

\* ----------------------------------------------------------------- shutdown
\* The token the connection provider is registered under.
ProviderToken(rt, o) ==
  IF rt.kind = "forRoot" THEN getDataSourceToken(o) ELSE getDataSourceToken(rt)

\* onApplicationShutdown up to the call of close().  moduleRef.get finds the
\* provider only under the token it was registered with; otherwise the lookup
\* throws or yields nothing.
OnApplicationShutdown ==
  /\ pc = "resolved"
  /\ shutdown = "none"
  /\ IF options.keepDataSourceAlive
     THEN /\ shutdown' = "done"
          /\ UNCHANGED << closeCalls, closeTarget >>
     ELSE IF getDataSourceToken(options) = ProviderToken(root, options)
     THEN /\ shutdown' = "closing"
          /\ closeCalls' = closeCalls + 1
          /\ closeTarget' = result
     ELSE /\ shutdown' \in {"threw", "done"}
          /\ UNCHANGED << closeCalls, closeTarget >>
  /\ UNCHANGED << closeFailed, errorLogs >>
  /\ UNCHANGED << root, options, manager, pc, subscriptions, calls, inFlight,
                  lastArgs, outcomes, errorCount, retryLogs, timer, elapsed,
                  waits, result >>
  /\ UNCHANGED registryVars

\* await dataSource.close() returns.
CloseResolve ==
  /\ shutdown = "closing"
  /\ shutdown' = "done"
  /\ UNCHANGED << closeCalls, closeTarget, closeFailed, errorLogs >>
  /\ UNCHANGED << root, options, manager, pc, subscriptions, calls, inFlight,
                  lastArgs, outcomes, errorCount, retryLogs, timer, elapsed,
                  waits, result >>
  /\ UNCHANGED registryVars

\* Slip: the failure of close() escapes the hook instead of being logged.
CloseReject_Rethrows ==
  /\ shutdown = "closing"
  /\ closeFailed' = TRUE
  /\ shutdown' = "threw"
  /\ UNCHANGED << closeCalls, closeTarget, errorLogs >>
  /\ UNCHANGED << root, options, manager, pc, subscriptions, calls, inFlight,
                  lastArgs, outcomes, errorCount, retryLogs, timer, elapsed,
                  waits, result >>
  /\ UNCHANGED registryVars

\* await dataSource.close() throws e: the catch block logs e.message.
CloseReject ==
  /\ shutdown = "closing"
  /\ \E e \in Errors : errorLogs' = Append(errorLogs, e)
  /\ closeFailed' = TRUE
  /\ shutdown' = "done"
  /\ UNCHANGED << closeCalls, closeTarget >>
  /\ UNCHANGED << root, options, manager, pc, subscriptions, calls, inFlight,
                  lastArgs, outcomes, errorCount, retryLogs, timer, elapsed,
                  waits, result >>
  /\ UNCHANGED registryVars

\* ------------------------------------------------------------ specifications
Next ==
  \/ Bootstrap
  \/ FactoryResolve
  \/ FactoryReject
  \/ Tick
  \/ Resubscribe
  \/ ManagerInitialize
  \/ OnApplicationShutdown
  \/ CloseResolve
  \/ CloseReject

NextRegistry ==
  \/ ForFeature
  \/ Bootstrap
  \/ FactoryResolve
  \/ FactoryReject
  \/ Tick
  \/ Resubscribe

\* Bootstrap with every retry policy, keep-alive reuse, and shutdown.
Spec == Init /\ [][Next]_vars
\* Feature registrations interleaved with a bootstrap that auto-loads.
SpecRegistry == InitRegistry /\ [][NextRegistry]_vars

\* ------------------------------------------------------------------- claims
FailuresOnly == \A i \in 1..Len(outcomes) : outcomes[i] # "ok"
AcceptsAll == options.toRetry.defined => options.toRetry.accepts = Errors

C2_SucceedsOnLastAttempt ==
  (options.retryAttempts > 0 /\ pc = "resolved" /\ result # ManagedConn) =>
     /\ Len(outcomes) <= options.retryAttempts
     /\ calls = Len(outcomes)
     /\ outcomes[Len(outcomes)] = "ok"
     /\ \A i \in 1..(Len(outcomes) - 1) : outcomes[i] # "ok"
     /\ result = ConnOfCall(Len(outcomes))
     /\ retryLogs = Len(outcomes) - 1
C2_Witness ==
  /\ pc = "resolved"
  /\ options.retryAttempts = 3
  /\ outcomes = <<"E1", "E2", "ok">>
  /\ result = ConnOfCall(3)
  /\ retryLogs = 2

\* C3: when toRetry rejects the error of the first failed attempt, the
\* factory has been called once, the bootstrap has failed with that error,
\* and no delay was started or waited, whatever retryAttempts is.
C3_PredicateRejects ==
  (/\ options.toRetry.defined
   /\ Len(outcomes) >= 1
   /\ outcomes[1] # "ok"
   /\ outcomes[1] \notin options.toRetry.accepts) =>
     /\ pc = "rejected"
     /\ calls = 1
     /\ subscriptions = 1
     /\ result = ErrorOfCall(1, outcomes[1])
     /\ retryLogs = 0
     /\ waits = <<>>
     /\ timer = 0
     /\ elapsed = 0
C3_Witness ==
  /\ pc = "rejected"
  /\ options.retryAttempts = 3
  /\ options.toRetry = [defined |-> TRUE, accepts |-> {"E2"}]
  /\ outcomes = <<"E1">>
  /\ calls = 1

\* C4: with retryAttempts <= 0 the first failure is fatal: one call of the
\* factory, its error is the result, no retry warning is logged.
C4_RetryDisabled ==
  (options.retryAttempts <= 0 /\ Len(outcomes) >= 1 /\ outcomes[1] # "ok") =>
     /\ pc = "rejected"
     /\ calls = 1
     /\ result = ErrorOfCall(1, outcomes[1])
     /\ retryLogs = 0
     /\ waits = <<>>
C4_Witness ==
  /\ pc = "rejected"
  /\ options.retryAttempts = 0
  /\ AcceptsAll
  /\ calls = 1
  /\ retryLogs = 0

\* C5: each time the deferred body runs: if keepDataSourceAlive is set and
\* the manager holds an initialized connection under the resolved name, the
\* bootstrap resolves with that connection and the factory is not called;
\* otherwise the factory (the caller's, else createConnection) is called.
C5_KeepAliveReuse ==
  [][ subscriptions' = subscriptions + 1 =>
        IF options.keepDataSourceAlive /\ manager = "initialized"
        THEN /\ pc' = "resolved"
             /\ result' = ManagedConn
             /\ calls' = calls
             /\ inFlight' = inFlight
        ELSE /\ pc' = "connecting"
             /\ calls' = calls + 1
             /\ lastArgs'.factory =
                  (IF root.kind = "forRootAsync" /\ root.dataSourceFactory
                   THEN "dataSourceFactory" ELSE "createConnection")
             /\ result' = result ]_vars
C5_Witness ==
  /\ options.keepDataSourceAlive
  /\ manager = "initialized"
  /\ pc = "resolved"
  /\ result = ManagedConn
  /\ calls = 0
  /\ lastArgs = NoArgs

\* The configured entities as a plain list; the registry's list for the
\* configuration's logical name.
ExplicitEntities ==
  IF options.entities.form = "undefined" THEN <<>>
  ELSE [i \in 1..Len(options.entities.items) |-> options.entities.items[i].value]
RegistryList ==
  IF getDataSourceName(options) \in DOMAIN storage
  THEN storage[getDataSourceName(options)] ELSE <<>>

\* C6: whenever the factory is called with a driver type configured and
\* autoLoadEntities on, the entity list it receives is the configured
\* entities in their order (nothing when none are configured) followed by
\* the registry's list for the configuration's logical name as it stands.
C6_AutoLoadEntities ==
  [][ (calls' = calls + 1 /\ options.type /\ options.autoLoadEntities) =>
        /\ lastArgs'.kind = "options"
        /\ lastArgs'.entities.form = "array"
        /\ ObjectValues(lastArgs'.entities) = ExplicitEntities \o RegistryList ]_vars
C6_Witness ==
  /\ options.type
  /\ options.autoLoadEntities
  /\ options.entities = ArrayOf(<<"A">>)
  /\ RegistryList = <<"B", "C">>
  /\ pc = "connecting"
  /\ lastArgs.entities = ArrayOf(<<"A", "B", "C">>)

\* s without the later repetitions of its elements.
FirstOccurrences(s) ==
  LET keep == {i \in 1..Len(s) : \A j \in 1..(i - 1) : s[j] # s[i]}
      Rank(i) == Cardinality({j \in keep : j <= i})
  IN  [n \in 1..Cardinality(keep) |-> s[CHOOSE i \in keep : Rank(i) = n]]
LookupKeys == {DEFAULT_DATA_SOURCE_NAME, "db2", SerializedConfig, "unused"}

\* C7: a lookup returns, for every key, the entities registered under it in
\* the order of their first registration (an entity registered again keeps
\* its place); a key nothing was registered under gives the empty list.
C7_RegistryOrder ==
  \A key \in LookupKeys :
     getEntitiesByDataSource(storage, StringKey(key)) =
       (IF key \in DOMAIN registered
        THEN FirstOccurrences(registered[key]) ELSE <<>>)
C7_Witness ==
  /\ featureCalls = 2
  /\ DEFAULT_DATA_SOURCE_NAME \in DOMAIN registered
  /\ registered[DEFAULT_DATA_SOURCE_NAME] = <<"A", "B", "C">>
  /\ getEntitiesByDataSource(storage, StringKey("default")) = <<"A", "B", "C">>
  /\ getEntitiesByDataSource(storage, StringKey("db2")) = <<>>

\* C8: once the shutdown hook has run for a connection the bootstrap
\* created, close() was called once, on that connection, if
\* keepDataSourceAlive is not set, and was not called if it is set.
C8_ShutdownCloses ==
  (shutdown \in {"done", "threw"} /\ result.kind = "conn" /\ result.call >= 1) =>
     IF options.keepDataSourceAlive
     THEN closeCalls = 0
     ELSE closeCalls = 1 /\ closeTarget = result

\* C9: when close() fails during shutdown, its message is logged, the hook
\* has completed normally, and close() was called once only.
C9_CloseFailureContained ==
  /\ closeCalls <= 1
  /\ shutdown = "threw" => closeCalls = 0
  /\ closeFailed =>
       /\ shutdown = "done"
       /\ Len(errorLogs) = 1
       /\ closeCalls = 1
C9_Witness ==
  /\ closeFailed
  /\ shutdown = "done"
  /\ errorLogs = <<"E2">>
  /\ closeCalls = 1

\* C10: at most one factory call is in flight; call k+1 is made only after
\* call k has failed; before every re-subscription exactly retryDelay was
\* waited, the same for each.
C10_SequentialFixedDelay ==
  /\ inFlight \in {0, 1}
  /\ (inFlight = 1) = (pc = "connecting")
  /\ calls = Len(outcomes) + inFlight
  /\ \A i \in 1..(calls - 1) : outcomes[i] # "ok"
  /\ Len(waits) = (IF subscriptions = 0 THEN 0 ELSE subscriptions - 1)
  /\ \A i \in 1..Len(waits) : waits[i] = options.retryDelay
  /\ pc = "waiting" => elapsed + timer = options.retryDelay
C10_Witness ==
  /\ options.retryDelay = 2
  /\ options.retryAttempts = 3
  /\ waits = <<2, 2>>
  /\ calls = 3
  /\ inFlight = 1
====
